---- MODULE Spec2Model ----
(***************************************************************************)
(* Model of payload_designer/components.py: six optical component classes  *)
(* (ThickLens, Slit, Foreoptics, VPHGrism, ThinLens, AchromDoublet), each  *)
(* a bag of optional fields with derivation methods.                       *)
(*                                                                         *)
(* Numbers are exact rationals <<num, den>> (den > 0); <<0, 0>> is the     *)
(* not-a-number marker.  Transcendental functions are evaluated in decimal *)
(* fixed point (Scale) and return a rational on that grid.                 *)
(***************************************************************************)
EXTENDS Integers, Sequences, FiniteSets, TLC

VARIABLES cls, self, result, before, assigned, history

vars == <<cls, self, result, before, assigned, history>>

(***************************************************************************)
(* Numbers                                                                 *)
(***************************************************************************)
\* an absent field (Python None)
None == <<>>

IsNone(x) == Len(x) = 0

NaN == <<0, 0>>

Abs(i) == IF i < 0 THEN -i ELSE i

RECURSIVE GCD(_, _)
GCD(a, b) == IF b = 0 THEN a ELSE GCD(b, a % b)

\* the rational n/d in lowest terms with a positive denominator
Q(n, d) ==
    IF d = 0 THEN NaN
    ELSE LET g == GCD(Abs(n), Abs(d))
             s == IF d < 0 THEN -1 ELSE 1
         IN  <<s * (n \div g), s * (d \div g)>>

I(n) == <<n, 1>>

IsNaN(x) == x[2] = 0

RNeg(x) == IF IsNaN(x) THEN NaN ELSE <<-x[1], x[2]>>

RAdd(x, y) ==
    IF IsNaN(x) \/ IsNaN(y) THEN NaN
    ELSE LET g == GCD(x[2], y[2])
         IN  Q(x[1] * (y[2] \div g) + y[1] * (x[2] \div g), (x[2] \div g) * y[2])

RSub(x, y) == RAdd(x, RNeg(y))

\* cross-cancelled product
RMul(x, y) ==
    IF IsNaN(x) \/ IsNaN(y) THEN NaN
    ELSE LET g1 == GCD(Abs(x[1]), y[2])
             g2 == GCD(Abs(y[1]), x[2])
         IN  Q((x[1] \div g1) * (y[1] \div g2), (x[2] \div g2) * (y[2] \div g1))

\* numpy division: a zero divisor gives a non-finite value, never a failure
RDiv(x, y) ==
    IF IsNaN(x) \/ IsNaN(y) \/ y[1] = 0 THEN NaN
    ELSE RMul(x, Q(y[2], y[1]))

RLeq(x, y) == x[1] * y[2] <= y[1] * x[2]

RAbs(x) == <<Abs(x[1]), x[2]>>

\* |x - y| <= tol, false when either side is not a number
Near(x, y, tol) ==
    /\ ~IsNaN(x)
    /\ ~IsNaN(y)
    /\ RLeq(RAbs(RSub(x, y)), tol)

(***************************************************************************)
(* Fixed-point transcendental functions                                    *)
(***************************************************************************)
Scale == 10 ^ 4

\* np.pi scaled by Scale
PiFix == 31416

HalfPiFix == PiFix \div 2

\* nearest integer to x * Scale
ToFix(x) ==
    LET g == GCD(x[2], Scale)
        n == x[1] * (Scale \div g)
        d == x[2] \div g
    IN  (2 * n + d) \div (2 * d)

FromFix(k) == Q(k, Scale)

\* Taylor series of sin on 0 <= x <= pi/2, x and the result scaled by Scale
SinPos(x) ==
    LET x2  == (x * x) \div Scale
        t3  == (x * x2) \div (6 * Scale)
        t5  == (t3 * x2) \div (20 * Scale)
        t7  == (t5 * x2) \div (42 * Scale)
        t9  == (t7 * x2) \div (72 * Scale)
        t11 == (t9 * x2) \div (110 * Scale)
    IN  x - t3 + t5 - t7 + t9 - t11

RECURSIVE SinFix(_)
SinFix(x) ==
    IF x < 0 THEN -SinFix(-x)
    ELSE IF x > 2 * PiFix THEN SinFix(x - 2 * PiFix)
    ELSE IF x > PiFix THEN -SinFix(x - PiFix)
    ELSE IF x > HalfPiFix THEN SinPos(PiFix - x)
    ELSE SinPos(x)

CosFix(x) == SinFix(HalfPiFix - x)

\* bisection: the least x in lo..hi with SinFix(x) >= y
RECURSIVE ASinSearch(_, _, _)
ASinSearch(y, lo, hi) ==
    IF lo >= hi THEN lo
    ELSE LET mid == (lo + hi) \div 2
         IN  IF SinFix(mid) >= y THEN ASinSearch(y, lo, mid)
             ELSE ASinSearch(y, mid + 1, hi)

\* bisection: the least x in lo..hi with tan(x) >= zn/zd
RECURSIVE ATanSearch(_, _, _, _)
ATanSearch(zn, zd, lo, hi) ==
    IF lo >= hi THEN lo
    ELSE LET mid == (lo + hi) \div 2
         IN  IF SinFix(mid) * zd >= zn * CosFix(mid)
             THEN ATanSearch(zn, zd, lo, mid)
             ELSE ATanSearch(zn, zd, mid + 1, hi)

RECURSIVE ISqrtSearch(_, _, _)
ISqrtSearch(n, lo, hi) ==
    IF lo >= hi THEN lo
    ELSE LET mid == (lo + hi + 1) \div 2
         IN  IF mid * mid <= n THEN ISqrtSearch(n, mid, hi)
             ELSE ISqrtSearch(n, lo, mid - 1)

\* np.sin
Sin(x) == IF IsNaN(x) THEN NaN ELSE FromFix(SinFix(ToFix(x)))

\* np.tan
Tan(x) ==
    IF IsNaN(x) THEN NaN
    ELSE Q(SinFix(ToFix(x)), CosFix(ToFix(x)))

\* np.arcsin: not-a-number outside [-1, 1]
ArcSin(x) ==
    IF IsNaN(x) THEN NaN
    ELSE LET y == ToFix(x)
         IN  IF Abs(y) > Scale THEN NaN
             ELSE IF y < 0 THEN FromFix(-ASinSearch(-y, 0, HalfPiFix))
             ELSE FromFix(ASinSearch(y, 0, HalfPiFix))

\* np.arctan
ArcTan(x) ==
    IF IsNaN(x) THEN NaN
    ELSE IF x[1] < 0 THEN FromFix(-ATanSearch(-x[1], x[2], 0, HalfPiFix))
    ELSE FromFix(ATanSearch(x[1], x[2], 0, HalfPiFix))

\* np.sqrt
Sqrt(x) ==
    IF IsNaN(x) \/ x[1] < 0 THEN NaN
    ELSE LET n == (x[1] * 1000000) \div x[2]
         IN  Q(ISqrtSearch(n, 0, 46340), 1000)

Pi == Q(PiFix, Scale)

\* np.radians
Radians(x) == RMul(x, RDiv(Pi, I(180)))

\* np.degrees
Degrees(x) == RMul(x, RDiv(I(180), Pi))

(***************************************************************************)
(* numpy arrays: a 2-D array is a sequence of rows                         *)
(***************************************************************************)
\* Array arguments are bound once (a \in {A}) and results are built as
\* explicit sequences (\o <<>>), so that an operand is evaluated a single time
\* however often its entries are read.

\* np.array(x).reshape(-1, 1) of a scalar
Col(x) == <<<<x>>>>

\* np.array(xs).reshape(-1, 1) of a one-dimensional sequence
ColVec(xs) == [i \in 1..Len(xs) |-> <<xs[i]>>] \o <<>>

Rows(A) == Len(A)

Cols(A) == Len(A[1])

\* mutant: the wavelength column is not transposed
Transpose_Identity(A) == A

Transpose(A) ==
    CHOOSE r \in {[j \in 1..Cols(a) |-> [i \in 1..Rows(a) |-> a[i][j]] \o <<>>] \o <<>> :
                    a \in {A}} : TRUE

RECURSIVE DotFrom(_, _, _, _, _)
DotFrom(A, B, i, j, k) ==
    IF k > Cols(A) THEN I(0)
    ELSE RAdd(RMul(A[i][k], B[k][j]), DotFrom(A, B, i, j, k + 1))

\* np.matmul
MatMul(A, B) ==
    CHOOSE r \in {[i \in 1..Rows(a) |-> [j \in 1..Cols(b) |-> DotFrom(a, b, i, j, 1)] \o <<>>] \o <<>> :
                    a \in {A}, b \in {B}} : TRUE

Max(a, b) == IF a >= b THEN a ELSE b

\* index along an axis of extent n under numpy broadcasting
Bx(i, n) == IF n = 1 THEN 1 ELSE i

\* the numpy binary operators + - * /
Apply2(op, x, y) ==
    CASE op = "add" -> RAdd(x, y)
      [] op = "sub" -> RSub(x, y)
      [] op = "mul" -> RMul(x, y)
      [] op = "div" -> RDiv(x, y)

\* element-wise binary operation with numpy broadcasting of the two shapes
Broadcast(op, A, B) ==
    CHOOSE r \in
        {[i \in 1..Max(Rows(a), Rows(b)) |->
            [j \in 1..Max(Cols(a), Cols(b)) |->
                Apply2(op, a[Bx(i, Rows(a))][Bx(j, Cols(a))],
                           b[Bx(i, Rows(b))][Bx(j, Cols(b))])]
             \o <<>>] \o <<>> :
         a \in {A}, b \in {B}} : TRUE

\* np.tan(np.radians(x))
TanRadians(x) == Tan(Radians(x))

\* x * 10 ** -9
NanoToUnit == Q(1, 10 ^ 9)

ScaleNano(x) == RMul(x, NanoToUnit)

\* the numpy element-wise functions
Apply1(fn, x) ==
    CASE fn = "sin" -> Sin(x)
      [] fn = "arcsin" -> ArcSin(x)
      [] fn = "radians" -> Radians(x)
      [] fn = "degrees" -> Degrees(x)
      [] fn = "tan_radians" -> TanRadians(x)
      [] fn = "nano" -> ScaleNano(x)

\* element-wise function of a 2-D array
MapArr(fn, A) ==
    CHOOSE r \in {[i \in 1..Rows(a) |-> [j \in 1..Cols(a) |-> Apply1(fn, a[i][j])] \o <<>>]
                    \o <<>> : a \in {A}} : TRUE

\* a one-dimensional array divided by a scalar
DivVec(xs, y) == [i \in 1..Len(xs) |-> RDiv(xs[i], y)] \o <<>>

(***************************************************************************)
(* physlib.snell_angle_2: angle_2 = arcsin(n_1 sin(angle_1) / n_2)         *)
(***************************************************************************)
snell_angle_2(angle_1, n_1, n_2) ==
    MapArr("arcsin", Broadcast("div", Broadcast("mul", n_1, MapArr("sin", angle_1)), n_2))

(***************************************************************************)
(* Outcome of a call: a returned value or a raised exception.  A message   *)
(* is the sequence of its words.                                           *)
(***************************************************************************)
Return(v) == [kind |-> "return", exc |-> "", msg |-> <<>>, value |-> v]

Raise(e, m) == [kind |-> "raise", exc |-> e, msg |-> m, value |-> <<>>]

\* assert self.x is not None, "x is not set."
NotSet(f) == Raise("AssertionError", <<f, "is", "not", "set.">>)

\* np.radians(None), None * 10 ** -3
TypeErrorNone == Raise("TypeError", <<"NoneType">>)

\* Python float division by zero
ZeroDivision == Raise("ZeroDivisionError", <<"division", "by", "zero">>)

\* Python `x / y` on floats
PyDiv(x, y) == IF y[1] = 0 THEN ZeroDivision ELSE Return(RDiv(x, y))

\* the first absent field of fs, in order; None when all are present
RECURSIVE FirstMissing(_, _)
FirstMissing(obj, fs) ==
    IF fs = <<>> THEN ""
    ELSE IF IsNone(obj[Head(fs)]) THEN Head(fs)
    ELSE FirstMissing(obj, Tail(fs))

\* what a method leaves behind: its outcome and the fields of the instance
Done(obj, out) == [out |-> out, self |-> obj]

(***************************************************************************)
(* class ThickLens                                                         *)
(***************************************************************************)
ThickLensFields == <<"h1", "h2", "f_thick", "n", "d", "R1", "R2", "s_i", "s_o", "a1", "a2", "x1", "x2">>

\* mutant: R2 is asserted before R1
ThickLens_get_focal_length_R2First(obj) ==
    LET missing == FirstMissing(obj, <<"n", "R2", "R1", "d">>)
        n  == obj["n"]
        R1 == obj["R1"]
        R2 == obj["R2"]
        d  == obj["d"]
        nm1 == RSub(n, I(1))
    IN  IF missing # "" THEN Done(obj, NotSet(missing))
        ELSE Done(obj, PyDiv(RMul(RMul(n, R1), R2),
                             RAdd(RMul(RMul(RSub(R2, R1), nm1), n),
                                  RMul(RMul(nm1, nm1), d))))

\* mutant: the computed focal length is stored in self.f_thick
ThickLens_get_focal_length_Store(obj) ==
    LET missing == FirstMissing(obj, <<"n", "R1", "R2", "d">>)
        n  == obj["n"]
        R1 == obj["R1"]
        R2 == obj["R2"]
        d  == obj["d"]
        nm1 == RSub(n, I(1))
        f_thick == PyDiv(RMul(RMul(n, R1), R2),
                         RAdd(RMul(RMul(RSub(R2, R1), nm1), n),
                              RMul(RMul(nm1, nm1), d)))
    IN  IF missing # "" THEN Done(obj, NotSet(missing))
        ELSE IF f_thick.kind = "raise" THEN Done(obj, f_thick)
        ELSE Done([obj EXCEPT !["f_thick"] = f_thick.value], f_thick)

ThickLens_get_focal_length(obj) ==
    LET missing == FirstMissing(obj, <<"n", "R1", "R2", "d">>)
        n  == obj["n"]
        R1 == obj["R1"]
        R2 == obj["R2"]
        d  == obj["d"]
        nm1 == RSub(n, I(1))
    IN  IF missing # "" THEN Done(obj, NotSet(missing))
        ELSE Done(obj, PyDiv(RMul(RMul(n, R1), R2),
                             RAdd(RMul(RMul(RSub(R2, R1), nm1), n),
                                  RMul(RMul(nm1, nm1), d))))

ThickLens_get_principal_planes(obj) ==
    LET missing == FirstMissing(obj, <<"d", "n", "R1", "R2", "f_thick">>)
        top == RNeg(RMul(RMul(obj["f_thick"], RSub(obj["n"], I(1))), obj["d"]))
        h1 == PyDiv(top, RMul(obj["R2"], obj["n"]))
        h2 == PyDiv(top, RMul(obj["R1"], obj["n"]))
    IN  IF missing # "" THEN Done(obj, NotSet(missing))
        ELSE IF h1.kind = "raise" THEN Done(obj, h1)
        ELSE IF h2.kind = "raise" THEN Done(obj, h2)
        ELSE Done(obj, Return(<<h1.value, h2.value>>))

ThickLens_get_focuser_image_distance(obj) ==
    LET missing == FirstMissing(obj, <<"f_thick">>)
    IN  IF missing # "" THEN Done(obj, NotSet(missing))
        ELSE Done(obj, Return(obj["f_thick"]))

ThickLens_get_collimator_object_distance(obj) ==
    LET missing == FirstMissing(obj, <<"f_thick">>)
    IN  IF missing # "" THEN Done(obj, NotSet(missing))
        ELSE Done(obj, Return(obj["f_thick"]))

ThickLens_get_focuser_image_height(obj) ==
    LET missing == FirstMissing(obj, <<"f_thick", "a1">>)
    IN  IF missing # "" THEN Done(obj, NotSet(missing))
        ELSE Done(obj, Return(RMul(Radians(obj["a1"]), obj["f_thick"])))

ThickLens_get_collimator_emergent_ray_angle(obj) ==
    LET missing == FirstMissing(obj, <<"x1", "f_thick">>)
        a2 == PyDiv(RNeg(obj["x1"]), obj["f_thick"])
    IN  IF missing # "" THEN Done(obj, NotSet(missing))
        ELSE IF a2.kind = "raise" THEN Done(obj, a2)
        ELSE Done(obj, Return(Degrees(a2.value)))

(***************************************************************************)
(* class Slit                                                              *)
(***************************************************************************)
SlitFields == <<"w_i", "m", "f", "w_s", "l_s", "w_o", "w_d", "fov_h", "fov_v">>

\* 2 * arctan(dim / (2 f)), times 180, divided by pi
FieldOfView(dim, f) ==
    RDiv(RMul(RMul(I(2), ArcTan(RDiv(dim, RMul(I(2), f)))), I(180)), Pi)

Slit_get_horizontal_field_of_view(obj) ==
    LET missing == FirstMissing(obj, <<"l_s", "f">>)
    IN  IF missing # "" THEN Done(obj, NotSet(missing))
        ELSE Done(obj, Return(FieldOfView(obj["l_s"], obj["f"])))

Slit_get_vertical_field_of_view(obj) ==
    LET missing == FirstMissing(obj, <<"w_s", "f">>)
    IN  IF missing # "" THEN Done(obj, NotSet(missing))
        ELSE Done(obj, Return(FieldOfView(obj["w_s"], obj["f"])))

Slit_get_image_width(obj) ==
    LET missing == FirstMissing(obj, <<"m", "w_s", "w_o">>)
        m   == obj["m"]
        w_s == obj["w_s"]
        w_o == obj["w_o"]
    IN  IF missing # "" THEN Done(obj, NotSet(missing))
        ELSE Done(obj, Return(Sqrt(RAdd(RMul(RMul(m, m), RMul(w_s, w_s)), RMul(w_o, w_o)))))

Slit_get_slit_width(obj) ==
    LET missing == FirstMissing(obj, <<"m", "w_d">>)
    IN  IF missing # "" THEN Done(obj, NotSet(missing))
        ELSE Done(obj, Return(RDiv(obj["w_d"], obj["m"])))

(***************************************************************************)
(* class Foreoptics                                                        *)
(***************************************************************************)
ForeopticsFields == <<"ds_i", "ds_o", "n", "dm_a", "a_in_max", "na", "b", "g", "s">>

Foreoptics_get_aperture_diameter(obj) ==
    IF IsNone(obj["ds_i"]) THEN Done(obj, NotSet("ds_i"))
    ELSE IF ~IsNone(obj["n"]) THEN Done(obj, Return(RDiv(obj["ds_i"], obj["n"])))
    ELSE IF ~IsNone(obj["na"])
         THEN Done(obj, Return(RMul(I(2), RMul(obj["ds_i"], obj["na"]))))
    ELSE Done(obj, Raise("ValueError", <<"n", "or", "na", "must", "be", "set.">>))

Foreoptics_get_magnification(obj) ==
    LET missing == FirstMissing(obj, <<"ds_i", "ds_o">>)
    IN  IF missing # "" THEN Done(obj, NotSet(missing))
        ELSE Done(obj, Return(RDiv(obj["ds_i"], obj["ds_o"])))

\* mutant: the image-distance alternative is tried before the numerical aperture
Foreoptics_get_f_number_GeometryFirst(obj) ==
    IF ~IsNone(obj["ds_i"]) /\ ~IsNone(obj["dm_a"])
    THEN Done(obj, Return(RDiv(obj["ds_i"], obj["dm_a"])))
    ELSE IF ~IsNone(obj["na"])
         THEN Done(obj, Return(RDiv(I(1), RMul(I(2), obj["na"]))))
    ELSE Done(obj, Raise("ValueError",
                         <<"ds_i", "and", "dm_a", "or", "na", "must", "be", "set.">>))

\* mutant: the f-number is kept in the field n once computed
Foreoptics_get_f_number_Cache(obj) ==
    IF ~IsNone(obj["na"])
    THEN LET n == RDiv(I(1), RMul(I(2), obj["na"]))
         IN  Done([obj EXCEPT !["n"] = n], Return(n))
    ELSE IF ~IsNone(obj["ds_i"]) /\ ~IsNone(obj["dm_a"])
         THEN LET n == RDiv(obj["ds_i"], obj["dm_a"])
              IN  Done([obj EXCEPT !["n"] = n], Return(n))
    ELSE Done(obj, Raise("ValueError",
                         <<"ds_i", "and", "dm_a", "or", "na", "must", "be", "set.">>))

Foreoptics_get_f_number(obj) ==
    IF ~IsNone(obj["na"])
    THEN Done(obj, Return(RDiv(I(1), RMul(I(2), obj["na"]))))
    ELSE IF ~IsNone(obj["ds_i"]) /\ ~IsNone(obj["dm_a"])
         THEN Done(obj, Return(RDiv(obj["ds_i"], obj["dm_a"])))
    ELSE Done(obj, Raise("ValueError",
                         <<"ds_i", "and", "dm_a", "or", "na", "must", "be", "set.">>))

Foreoptics_get_effective_focal_length(obj) ==
    LET missing == FirstMissing(obj, <<"ds_i", "ds_o">>)
    IN  IF missing # "" THEN Done(obj, NotSet(missing))
        ELSE Done(obj, Return(RDiv(RAdd(obj["ds_o"], obj["ds_i"]),
                                   RMul(obj["ds_o"], obj["ds_i"]))))

\* np.radians is applied to self.a_in_max before the test for None
Foreoptics_get_numerical_aperture(obj) ==
    IF IsNone(obj["a_in_max"]) THEN Done(obj, TypeErrorNone)
    ELSE LET a_in_max == Radians(obj["a_in_max"])
         IN  IF ~IsNone(a_in_max) THEN Done(obj, Return(Sin(a_in_max)))
             ELSE IF ~IsNone(obj["n"])
                  THEN Done(obj, Return(RDiv(I(1), RMul(I(2), obj["n"]))))
             ELSE Done(obj, Raise("ValueError",
                                  <<"a_in_max", "or", "n", "must", "be", "set.">>))

Foreoptics_get_geometric_etendue(obj) ==
    LET missing == FirstMissing(obj, <<"s", "a_in_max">>)
        sn == Sin(Radians(obj["a_in_max"]))
    IN  IF missing # "" THEN Done(obj, NotSet(missing))
        ELSE Done(obj, Return(RMul(Pi, RMul(obj["s"], RMul(sn, sn)))))

Foreoptics_get_radiant_flux(obj) ==
    LET missing == FirstMissing(obj, <<"b", "g">>)
    IN  IF missing # "" THEN Done(obj, NotSet(missing))
        ELSE Done(obj, Return(RMul(obj["b"], obj["g"])))

(***************************************************************************)
(* class VPHGrism                                                          *)
(***************************************************************************)
VPHGrismFields == <<"d", "t", "a_in", "a_out", "R", "l", "l_g", "a", "m", "n_1", "n_2", "n_3", "v", "dl", "N">>

\* the fields get_angle_out asserts, in the order of its assert statements
AngleOutRequired == <<"a_in", "n_1", "n_2", "n_3", "m", "a", "v", "l">>

\* mutant: the third angle is the previous angle minus the apex angle
AngleOutChain_Minus(obj) ==
    LET n_1  == Col(obj["n_1"])
        n_2  == Col(obj["n_2"])
        n_3  == Col(obj["n_3"])
        m    == Col(obj["m"])
        v    == Col(obj["v"])
        l    == MapArr("nano", ColVec(obj["l"]))
        a_in == MapArr("radians", ColVec(obj["a_in"]))
        a    == Col(Radians(obj["a"]))
        angle_1  == Broadcast("add", a_in, a)
        angle_2  == snell_angle_2(angle_1, n_1, n_2)
        angle_3  == Broadcast("sub", angle_2, a)
        angle_4  == snell_angle_2(angle_3, n_2, n_3)
        angle_5  == angle_4
        angle_6  == MapArr("arcsin",
                           Broadcast("sub", MapArr("sin", angle_5),
                                     Broadcast("mul", m, MatMul(v, Transpose(l)))))
        angle_7  == angle_6
        angle_8  == snell_angle_2(angle_7, n_3, n_2)
        angle_9  == Broadcast("sub", angle_8, a)
        angle_10 == snell_angle_2(angle_9, n_2, n_1)
        angle_out == Broadcast("add", angle_10, a)
    IN  MapArr("degrees", angle_out)

\* lines 451-482: the refraction chain on column vectors
AngleOutChain(obj) ==
    LET n_1  == Col(obj["n_1"])
        n_2  == Col(obj["n_2"])
        n_3  == Col(obj["n_3"])
        m    == Col(obj["m"])
        v    == Col(obj["v"])
        l    == MapArr("nano", ColVec(obj["l"]))
        a_in == MapArr("radians", ColVec(obj["a_in"]))
        a    == Col(Radians(obj["a"]))
        angle_1  == Broadcast("add", a_in, a)
        angle_2  == snell_angle_2(angle_1, n_1, n_2)
        angle_3  == Broadcast("sub", a, angle_2)
        angle_4  == snell_angle_2(angle_3, n_2, n_3)
        angle_5  == angle_4
        angle_6  == MapArr("arcsin",
                           Broadcast("sub", MapArr("sin", angle_5),
                                     Broadcast("mul", m, MatMul(v, Transpose(l)))))
        angle_7  == angle_6
        angle_8  == snell_angle_2(angle_7, n_3, n_2)
        angle_9  == Broadcast("sub", angle_8, a)
        angle_10 == snell_angle_2(angle_9, n_2, n_1)
        angle_out == Broadcast("add", angle_10, a)
    IN  MapArr("degrees", angle_out)

\* mutant: the assert on n_2 carries the message of the assert on n_1
VPHGrism_get_angle_out_Paste(obj) ==
    LET missing == FirstMissing(obj, AngleOutRequired)
    IN  IF missing = "n_2" THEN Done(obj, NotSet("n_1"))
        ELSE IF missing # "" THEN Done(obj, NotSet(missing))
        ELSE Done(obj, Return(AngleOutChain(obj)))

VPHGrism_get_angle_out(obj) ==
    LET missing == FirstMissing(obj, AngleOutRequired)
    IN  IF missing # "" THEN Done(obj, NotSet(missing))
        ELSE Done(obj, Return(AngleOutChain(obj)))

VPHGrism_get_resolvance(obj) ==
    IF ~IsNone(obj["l"]) /\ ~IsNone(obj["dl"])
    THEN Done(obj, Return(DivVec(obj["l"], obj["dl"])))
    ELSE IF ~IsNone(obj["m"]) /\ ~IsNone(obj["N"])
         THEN Done(obj, Return(RMul(obj["m"], obj["N"])))
    ELSE Done(obj, Raise("ValueError",
                         <<"l", "and", "dl", "or", "m", "and", "N", "must", "be", "set.">>))

VPHGrism_get_resolution(obj) ==
    IF ~IsNone(obj["l"]) /\ ~IsNone(obj["R"])
    THEN Done(obj, Return(DivVec(obj["l"], obj["R"])))
    ELSE IF ~IsNone(obj["l"]) /\ ~IsNone(obj["m"]) /\ ~IsNone(obj["N"])
         THEN Done(obj, Return(DivVec(obj["l"], RMul(obj["m"], obj["N"]))))
    ELSE Done(obj, Raise("ValueError",
                         <<"l", "and", "R", "or", "l", "and", "m", "and", "N",
                           "must", "be", "set.">>))

(***************************************************************************)
(* class ThinLens                                                          *)
(***************************************************************************)
ThinLensFields == <<"D", "M", "T", "a_in", "a_out", "d_i", "d_o", "f", "h_i", "h_o">>

\* the object utillib.LUT(T) stored in self.T by the constructor
LUT == <<"LUT">>

ThinLens_get_image_distance(obj) ==
    IF IsNone(obj["f"]) THEN Done(obj, NotSet("f"))
    ELSE Done(obj, Return(obj["f"]))

ThinLens_get_source_distance(obj) ==
    IF IsNone(obj["f"]) THEN Done(obj, NotSet("f"))
    ELSE Done(obj, Return(obj["f"]))

ThinLens_get_image_height(obj) ==
    LET missing == FirstMissing(obj, <<"f", "a_in">>)
    IN  IF missing # "" THEN Done(obj, NotSet(missing))
        ELSE Done(obj, Return(MatMul(ColVec(obj["f"]),
                                     Transpose(MapArr("tan_radians", ColVec(obj["a_in"]))))))

ThinLens_get_source_height(obj) ==
    LET missing == FirstMissing(obj, <<"f", "a_out">>)
    IN  IF missing # "" THEN Done(obj, NotSet(missing))
        ELSE Done(obj, Return(MatMul(ColVec(obj["f"]),
                                     Transpose(MapArr("tan_radians", ColVec(obj["a_out"]))))))

\* h / np.tan(np.radians(angles)) over a sequence of angles
HeightOverTan(h, angles) ==
    [i \in 1..Len(angles) |-> RDiv(h, TanRadians(angles[i]))] \o <<>>

\* mutant: the object distance is tried before the image distance
ThinLens_get_focal_length_ObjectFirst(obj) ==
    IF ~IsNone(obj["d_o"]) THEN Done(obj, Return(obj["d_o"]))
    ELSE IF ~IsNone(obj["d_i"]) THEN Done(obj, Return(obj["d_i"]))
    ELSE IF ~IsNone(obj["h_i"]) /\ ~IsNone(obj["a_in"])
         THEN Done(obj, Return(HeightOverTan(obj["h_i"], obj["a_in"])))
    ELSE IF ~IsNone(obj["h_o"]) /\ ~IsNone(obj["a_out"])
         THEN Done(obj, Return(HeightOverTan(obj["h_o"], obj["a_out"])))
    ELSE Done(obj, Raise("ValueError",
                         <<"d_i", "or", "d_o", "or", "h_i", "and", "a_in", "or",
                           "h_o", "and", "a_out", "must", "be", "set.">>))

ThinLens_get_focal_length(obj) ==
    IF ~IsNone(obj["d_i"]) THEN Done(obj, Return(obj["d_i"]))
    ELSE IF ~IsNone(obj["d_o"]) THEN Done(obj, Return(obj["d_o"]))
    ELSE IF ~IsNone(obj["h_i"]) /\ ~IsNone(obj["a_in"])
         THEN Done(obj, Return(HeightOverTan(obj["h_i"], obj["a_in"])))
    ELSE IF ~IsNone(obj["h_o"]) /\ ~IsNone(obj["a_out"])
         THEN Done(obj, Return(HeightOverTan(obj["h_o"], obj["a_out"])))
    ELSE Done(obj, Raise("ValueError",
                         <<"d_i", "or", "d_o", "or", "h_i", "and", "a_in", "or",
                           "h_o", "and", "a_out", "must", "be", "set.">>))

(***************************************************************************)
(* class AchromDoublet                                                     *)
(***************************************************************************)
AchromDoubletFields == <<"f_1", "f_2", "f_eq", "V_1", "V_2">>

MilliToUnit == Q(1, 10 ^ 3)

AchromDoublet_focal_length_1(obj) ==
    LET missing == FirstMissing(obj, <<"V_1", "V_2", "f_eq">>)
        f_eq == RMul(obj["f_eq"], MilliToUnit)
    IN  IF missing # "" THEN Done(obj, NotSet(missing))
        ELSE Done(obj, PyDiv(RMul(f_eq, RSub(obj["V_1"], obj["V_2"])), obj["V_1"]))

AchromDoublet_focal_length_2(obj) ==
    LET missing == FirstMissing(obj, <<"V_1", "V_2", "f_eq">>)
        f_eq == RMul(obj["f_eq"], MilliToUnit)
    IN  IF missing # "" THEN Done(obj, NotSet(missing))
        ELSE Done(obj, PyDiv(RMul(RNeg(f_eq), RSub(obj["V_1"], obj["V_2"])), obj["V_2"]))

\* both self.f_1 and self.f_2 are multiplied by 10 ** -3 before the tests for None
AchromDoublet_effective_focal_length(obj) ==
    IF IsNone(obj["f_1"]) \/ IsNone(obj["f_2"]) THEN Done(obj, TypeErrorNone)
    ELSE LET f_1 == RMul(obj["f_1"], MilliToUnit)
             f_2 == RMul(obj["f_2"], MilliToUnit)
         IN  IF ~IsNone(f_1)
             THEN IF IsNone(obj["V_1"]) \/ IsNone(obj["V_2"]) THEN Done(obj, TypeErrorNone)
                  ELSE Done(obj, PyDiv(RMul(f_1, obj["V_1"]), RSub(obj["V_1"], obj["V_2"])))
             ELSE IF ~IsNone(f_2)
             THEN IF IsNone(obj["V_1"]) \/ IsNone(obj["V_2"]) THEN Done(obj, TypeErrorNone)
                  ELSE Done(obj, PyDiv(RMul(RNeg(f_2), obj["V_2"]), RSub(obj["V_1"], obj["V_2"])))
             ELSE Done(obj, Raise("ValueError", <<"f_1", "or", "f_2", "must", "be", "set.">>))

(***************************************************************************)
(* Instances and the values their fields take                              *)
(***************************************************************************)
Classes == {"ThickLens", "Slit", "Foreoptics", "VPHGrism", "ThinLens", "AchromDoublet"}

FieldSeq(c) ==
    CASE c = "ThickLens"     -> ThickLensFields
      [] c = "Slit"          -> SlitFields
      [] c = "Foreoptics"    -> ForeopticsFields
      [] c = "VPHGrism"      -> VPHGrismFields
      [] c = "ThinLens"      -> ThinLensFields
      [] c = "AchromDoublet" -> AchromDoubletFields

Range(sq) == {sq[i] : i \in 1..Len(sq)}

Fields(c) == Range(FieldSeq(c))

\* longest sequence of incidence angles, of wavelengths
MaxAngles == 2

MaxWaves == 2

\* most never-read fields holding a value at once
MaxSpare == 1

AngleAt(i) == I(15 * i - 20)

WaveAt(i) == I(200 + 200 * i)

Angles(k) == [i \in 1..k |-> AngleAt(i)]

Waves(k) == [i \in 1..k |-> WaveAt(i)]

AngleSeqs == {Angles(k) : k \in 1..MaxAngles}

WaveSeqs == {Waves(k) : k \in 1..MaxWaves}

\* fields no derivation method reads
Spare(c) ==
    CASE c = "ThickLens"     -> {"h1", "h2", "s_i", "s_o", "a2", "x2"}
      [] c = "Slit"          -> {"w_i", "fov_h", "fov_v"}
      [] c = "Foreoptics"    -> {}
      [] c = "VPHGrism"      -> {"d", "t", "a_out", "l_g"}
      [] c = "ThinLens"      -> {"D", "M"}
      [] c = "AchromDoublet" -> {}

\* the values a field is given, besides None
Values(c, f) ==
    CASE f \in Spare(c) -> {I(1)}
      [] c = "ThickLens" ->
            (CASE f = "n" -> {Q(3, 2)}
               [] f = "R1" -> {I(100)}
               [] f = "R2" -> {I(-100)}
               [] f = "d" -> {I(10)}
               [] f = "f_thick" -> {I(100)}
               [] f = "a1" -> {I(10)}
               [] f = "x1" -> {I(5)})
      [] c = "Slit" ->
            (CASE f = "m" -> {I(2)}
               [] f = "f" -> {I(50)}
               [] f = "w_s" -> {Q(3, 2)}
               [] f = "l_s" -> {I(10)}
               [] f = "w_o" -> {I(4)}
               [] f = "w_d" -> {I(3)})
      [] c = "Foreoptics" ->
            (CASE f = "ds_i" -> {I(50)}
               [] f = "ds_o" -> {I(200)}
               [] f = "n" -> {I(4)}
               [] f = "dm_a" -> {I(10)}
               [] f = "a_in_max" -> {I(30)}
               [] f = "na" -> {Q(1, 10), Q(1, 4)}
               [] f = "b" -> {I(3)}
               [] f = "g" -> {I(7)}
               [] f = "s" -> {I(2)})
      [] c = "VPHGrism" ->
            (CASE f = "a_in" -> AngleSeqs
               [] f = "l" -> WaveSeqs
               [] f = "a" -> {I(0), I(10)}
               [] f = "v" -> {I(0), I(600000)}
               [] f = "m" -> {I(1)}
               [] f = "n_1" -> {I(1)}
               [] f = "n_2" -> {Q(3, 2)}
               [] f = "n_3" -> {Q(13, 10)}
               [] f = "R" -> {I(1000)}
               [] f = "dl" -> {I(2)}
               [] f = "N" -> {I(3000)})
      [] c = "ThinLens" ->
            (CASE f = "T" -> {LUT}
               [] f = "a_in" -> AngleSeqs
               [] f = "a_out" -> {<<I(20)>>}
               [] f = "d_i" -> {I(50)}
               [] f = "d_o" -> {I(80)}
               [] f = "f" -> {<<I(50), I(100)>>}
               [] f = "h_i" -> {I(5)}
               [] f = "h_o" -> {I(7)})
      [] c = "AchromDoublet" ->
            (CASE f = "f_1" -> {I(100)}
               [] f = "f_2" -> {I(-200)}
               [] f = "f_eq" -> {I(200)}
               [] f = "V_1" -> {I(60)}
               [] f = "V_2" -> {I(30)})

Domain(c, f) == {None} \cup Values(c, f)

SpareSet(c, obj) == {f \in Spare(c) : ~IsNone(obj[f])}

WithinBounds(c, obj) == Cardinality(SpareSet(c, obj)) <= MaxSpare

\* __init__ with default arguments: every field None, except that ThinLens
\* stores utillib.LUT(T) in self.T.  A keyword argument is an assignment of
\* the field of its name.
Construct(c) ==
    [f \in Fields(c) |-> IF c = "ThinLens" /\ f = "T" THEN LUT ELSE None]

NoResult == [method |-> "", out |-> Return(None)]

\* what an observer of the instance remembers: prev is the last call made
\* before the latest assignment, again tells that the latest call repeated
\* the call before it with no assignment in between, assignments counts the
\* assignments made since construction
NoHistory == [prev |-> NoResult, again |-> FALSE, assignments |-> 0]

(***************************************************************************)
(* The state machine: one instance, its fields assigned and its methods    *)
(* called in any order                                                     *)
(***************************************************************************)
Init ==
    /\ cls \in Classes
    /\ self = Construct(cls)
    /\ result = NoResult
    /\ before = self
    /\ assigned = self
    /\ history = NoHistory

\* obj.f = v
Assign(f, v) ==
    /\ self[f] # v
    /\ WithinBounds(cls, [self EXCEPT ![f] = v])
    /\ self' = [self EXCEPT ![f] = v]
    /\ assigned' = [assigned EXCEPT ![f] = v]
    /\ before' = self'
    /\ result' = NoResult
    /\ UNCHANGED cls

SetField ==
    \E f \in Fields(cls) : \E v \in Domain(cls, f) :
        Assign(f, v) /\ UNCHANGED history

\* a call of method name, done being what it leaves
Invocation(name, done) ==
    /\ before' = self
    /\ self' = done.self
    /\ result' = [method |-> name, out |-> done.out]
    /\ UNCHANGED <<cls, assigned>>

\* a call of method name on an instance of class c
Call(c, name, done) ==
    /\ cls = c
    /\ Invocation(name, done)
    /\ UNCHANGED history

Call_ThickLens_get_focal_length ==
    Call("ThickLens", "ThickLens.get_focal_length", ThickLens_get_focal_length(self))

Call_ThickLens_get_principal_planes ==
    Call("ThickLens", "ThickLens.get_principal_planes", ThickLens_get_principal_planes(self))

Call_ThickLens_get_focuser_image_distance ==
    Call("ThickLens", "ThickLens.get_focuser_image_distance", ThickLens_get_focuser_image_distance(self))

Call_ThickLens_get_collimator_object_distance ==
    Call("ThickLens", "ThickLens.get_collimator_object_distance", ThickLens_get_collimator_object_distance(self))

Call_ThickLens_get_focuser_image_height ==
    Call("ThickLens", "ThickLens.get_focuser_image_height", ThickLens_get_focuser_image_height(self))

Call_ThickLens_get_collimator_emergent_ray_angle ==
    Call("ThickLens", "ThickLens.get_collimator_emergent_ray_angle", ThickLens_get_collimator_emergent_ray_angle(self))

Call_Slit_get_horizontal_field_of_view ==
    Call("Slit", "Slit.get_horizontal_field_of_view", Slit_get_horizontal_field_of_view(self))

Call_Slit_get_vertical_field_of_view ==
    Call("Slit", "Slit.get_vertical_field_of_view", Slit_get_vertical_field_of_view(self))

Call_Slit_get_image_width ==
    Call("Slit", "Slit.get_image_width", Slit_get_image_width(self))

Call_Slit_get_slit_width ==
    Call("Slit", "Slit.get_slit_width", Slit_get_slit_width(self))

Call_Foreoptics_get_aperture_diameter ==
    Call("Foreoptics", "Foreoptics.get_aperture_diameter", Foreoptics_get_aperture_diameter(self))

Call_Foreoptics_get_magnification ==
    Call("Foreoptics", "Foreoptics.get_magnification", Foreoptics_get_magnification(self))

Call_Foreoptics_get_f_number ==
    Call("Foreoptics", "Foreoptics.get_f_number", Foreoptics_get_f_number(self))

Call_Foreoptics_get_effective_focal_length ==
    Call("Foreoptics", "Foreoptics.get_effective_focal_length", Foreoptics_get_effective_focal_length(self))

Call_Foreoptics_get_numerical_aperture ==
    Call("Foreoptics", "Foreoptics.get_numerical_aperture", Foreoptics_get_numerical_aperture(self))

Call_Foreoptics_get_geometric_etendue ==
    Call("Foreoptics", "Foreoptics.get_geometric_etendue", Foreoptics_get_geometric_etendue(self))

Call_Foreoptics_get_radiant_flux ==
    Call("Foreoptics", "Foreoptics.get_radiant_flux", Foreoptics_get_radiant_flux(self))

Call_VPHGrism_get_angle_out ==
    Call("VPHGrism", "VPHGrism.get_angle_out", VPHGrism_get_angle_out(self))

Call_VPHGrism_get_resolvance ==
    Call("VPHGrism", "VPHGrism.get_resolvance", VPHGrism_get_resolvance(self))

Call_VPHGrism_get_resolution ==
    Call("VPHGrism", "VPHGrism.get_resolution", VPHGrism_get_resolution(self))

Call_ThinLens_get_image_distance ==
    Call("ThinLens", "ThinLens.get_image_distance", ThinLens_get_image_distance(self))

Call_ThinLens_get_source_distance ==
    Call("ThinLens", "ThinLens.get_source_distance", ThinLens_get_source_distance(self))

Call_ThinLens_get_image_height ==
    Call("ThinLens", "ThinLens.get_image_height", ThinLens_get_image_height(self))

Call_ThinLens_get_source_height ==
    Call("ThinLens", "ThinLens.get_source_height", ThinLens_get_source_height(self))

Call_ThinLens_get_focal_length ==
    Call("ThinLens", "ThinLens.get_focal_length", ThinLens_get_focal_length(self))

Call_AchromDoublet_focal_length_1 ==
    Call("AchromDoublet", "AchromDoublet.focal_length_1", AchromDoublet_focal_length_1(self))

Call_AchromDoublet_focal_length_2 ==
    Call("AchromDoublet", "AchromDoublet.focal_length_2", AchromDoublet_focal_length_2(self))

Call_AchromDoublet_effective_focal_length ==
    Call("AchromDoublet", "AchromDoublet.effective_focal_length", AchromDoublet_effective_focal_length(self))

Next ==
    \/ SetField
    \/ Call_ThickLens_get_focal_length
    \/ Call_ThickLens_get_principal_planes
    \/ Call_ThickLens_get_focuser_image_distance
    \/ Call_ThickLens_get_collimator_object_distance
    \/ Call_ThickLens_get_focuser_image_height
    \/ Call_ThickLens_get_collimator_emergent_ray_angle
    \/ Call_Slit_get_horizontal_field_of_view
    \/ Call_Slit_get_vertical_field_of_view
    \/ Call_Slit_get_image_width
    \/ Call_Slit_get_slit_width
    \/ Call_Foreoptics_get_aperture_diameter
    \/ Call_Foreoptics_get_magnification
    \/ Call_Foreoptics_get_f_number
    \/ Call_Foreoptics_get_effective_focal_length
    \/ Call_Foreoptics_get_numerical_aperture
    \/ Call_Foreoptics_get_geometric_etendue
    \/ Call_Foreoptics_get_radiant_flux
    \/ Call_VPHGrism_get_angle_out
    \/ Call_VPHGrism_get_resolvance
    \/ Call_VPHGrism_get_resolution
    \/ Call_ThinLens_get_image_distance
    \/ Call_ThinLens_get_source_distance
    \/ Call_ThinLens_get_image_height
    \/ Call_ThinLens_get_source_height
    \/ Call_ThinLens_get_focal_length
    \/ Call_AchromDoublet_focal_length_1
    \/ Call_AchromDoublet_focal_length_2
    \/ Call_AchromDoublet_effective_focal_length

Spec == Init /\ [][Next]_vars

(***************************************************************************)
(* The same instance with the observer's memory kept: assignments and      *)
(* calls interleave as before, and history records the earlier call        *)
(***************************************************************************)
\* the derivation methods of a class, by name
Methods(c) ==
    CASE c = "ThickLens" ->
            {"ThickLens.get_focal_length",
             "ThickLens.get_principal_planes",
             "ThickLens.get_focuser_image_distance",
             "ThickLens.get_collimator_object_distance",
             "ThickLens.get_focuser_image_height",
             "ThickLens.get_collimator_emergent_ray_angle"}
      [] c = "Slit" ->
            {"Slit.get_horizontal_field_of_view",
             "Slit.get_vertical_field_of_view",
             "Slit.get_image_width",
             "Slit.get_slit_width"}
      [] c = "Foreoptics" ->
            {"Foreoptics.get_aperture_diameter",
             "Foreoptics.get_magnification",
             "Foreoptics.get_f_number",
             "Foreoptics.get_effective_focal_length",
             "Foreoptics.get_numerical_aperture",
             "Foreoptics.get_geometric_etendue",
             "Foreoptics.get_radiant_flux"}
      [] c = "VPHGrism" ->
            {"VPHGrism.get_angle_out",
             "VPHGrism.get_resolvance",
             "VPHGrism.get_resolution"}
      [] c = "ThinLens" ->
            {"ThinLens.get_image_distance",
             "ThinLens.get_source_distance",
             "ThinLens.get_image_height",
             "ThinLens.get_source_height",
             "ThinLens.get_focal_length"}
      [] c = "AchromDoublet" ->
            {"AchromDoublet.focal_length_1",
             "AchromDoublet.focal_length_2",
             "AchromDoublet.effective_focal_length"}

\* obj.<name>(): what the call returns or raises, and the fields it leaves
Invoke(name, obj) ==
    CASE name = "ThickLens.get_focal_length" ->
            ThickLens_get_focal_length(obj)
      [] name = "ThickLens.get_principal_planes" ->
            ThickLens_get_principal_planes(obj)
      [] name = "ThickLens.get_focuser_image_distance" ->
            ThickLens_get_focuser_image_distance(obj)
      [] name = "ThickLens.get_collimator_object_distance" ->
            ThickLens_get_collimator_object_distance(obj)
      [] name = "ThickLens.get_focuser_image_height" ->
            ThickLens_get_focuser_image_height(obj)
      [] name = "ThickLens.get_collimator_emergent_ray_angle" ->
            ThickLens_get_collimator_emergent_ray_angle(obj)
      [] name = "Slit.get_horizontal_field_of_view" ->
            Slit_get_horizontal_field_of_view(obj)
      [] name = "Slit.get_vertical_field_of_view" ->
            Slit_get_vertical_field_of_view(obj)
      [] name = "Slit.get_image_width" ->
            Slit_get_image_width(obj)
      [] name = "Slit.get_slit_width" ->
            Slit_get_slit_width(obj)
      [] name = "Foreoptics.get_aperture_diameter" ->
            Foreoptics_get_aperture_diameter(obj)
      [] name = "Foreoptics.get_magnification" ->
            Foreoptics_get_magnification(obj)
      [] name = "Foreoptics.get_f_number" ->
            Foreoptics_get_f_number(obj)
      [] name = "Foreoptics.get_effective_focal_length" ->
            Foreoptics_get_effective_focal_length(obj)
      [] name = "Foreoptics.get_numerical_aperture" ->
            Foreoptics_get_numerical_aperture(obj)
      [] name = "Foreoptics.get_geometric_etendue" ->
            Foreoptics_get_geometric_etendue(obj)
      [] name = "Foreoptics.get_radiant_flux" ->
            Foreoptics_get_radiant_flux(obj)
      [] name = "VPHGrism.get_angle_out" ->
            VPHGrism_get_angle_out(obj)
      [] name = "VPHGrism.get_resolvance" ->
            VPHGrism_get_resolvance(obj)
      [] name = "VPHGrism.get_resolution" ->
            VPHGrism_get_resolution(obj)
      [] name = "ThinLens.get_image_distance" ->
            ThinLens_get_image_distance(obj)
      [] name = "ThinLens.get_source_distance" ->
            ThinLens_get_source_distance(obj)
      [] name = "ThinLens.get_image_height" ->
            ThinLens_get_image_height(obj)
      [] name = "ThinLens.get_source_height" ->
            ThinLens_get_source_height(obj)
      [] name = "ThinLens.get_focal_length" ->
            ThinLens_get_focal_length(obj)
      [] name = "AchromDoublet.focal_length_1" ->
            AchromDoublet_focal_length_1(obj)
      [] name = "AchromDoublet.focal_length_2" ->
            AchromDoublet_focal_length_2(obj)
      [] name = "AchromDoublet.effective_focal_length" ->
            AchromDoublet_effective_focal_length(obj)

\* __init__ with every keyword argument given: each field that some method
\* reads holds a value
ConstructWith(c) ==
    [f \in Fields(c) |-> IF f \in Spare(c) THEN None
                         ELSE IF c = "ThinLens" /\ f = "T" THEN LUT
                         ELSE CHOOSE v \in Values(c, f) : TRUE]

\* number of assignments followed in one run
MaxAssignments == 2

InitOrder ==
    /\ cls \in Classes
    /\ self \in {Construct(cls), ConstructWith(cls)}
    /\ result = NoResult
    /\ before = self
    /\ assigned = self
    /\ history = NoHistory

\* obj.f = v, the call before it remembered
OrderAssign ==
    \E f \in Fields(cls) : \E v \in Domain(cls, f) :
        /\ history.assignments < MaxAssignments
        /\ Assign(f, v)
        /\ history' = [prev  |-> IF result.method # "" THEN result
                                                      ELSE history.prev,
                       again |-> FALSE,
                       assignments |-> history.assignments + 1]

\* obj.<name>() for any method of the class
OrderCall ==
    \E name \in Methods(cls) :
        /\ Invocation(name, Invoke(name, self))
        /\ history' = [history EXCEPT !.again = (result.method = name)]

NextOrder ==
    \/ OrderAssign
    \/ OrderCall

SpecOrder == InitOrder /\ [][NextOrder]_vars

(***************************************************************************)
(* Properties                                                              *)
(***************************************************************************)
Called(name) == result.method = name

Returned(name) == Called(name) /\ result.out.kind = "return"

Has(obj, f) == ~IsNone(obj[f])

Failed(exc) == result.out.kind = "raise" /\ result.out.exc = exc

\* the failure is an AssertionError whose message is "<f> is not set."
FailedNaming(f) == Failed("AssertionError") /\ result.out.msg = <<f, "is", "not", "set.">>

\* tolerance on angles in degrees
Tol == Q(1, 10)

\* the value is the sequence h / tan(angle), one entry per angle in degrees
IsHeightOverTan(value, h, angles) ==
    /\ Len(value) = Len(angles)
    /\ \A i \in 1..Len(angles) : value[i] = RDiv(h, Tan(Radians(angles[i])))

\* C1: ThinLens.get_focal_length returns the result of the first alternative,
\* in the order d_i, d_o, (h_i, a_in), (h_o, a_out), whose fields are all
\* present, whatever later alternatives hold, and raises ValueError when no
\* alternative is fully present.
C1_FocalLengthPriority ==
    Called("ThinLens.get_focal_length") =>
        IF Has(before, "d_i")
        THEN result.out.kind = "return" /\ result.out.value = before["d_i"]
        ELSE IF Has(before, "d_o")
        THEN result.out.kind = "return" /\ result.out.value = before["d_o"]
        ELSE IF Has(before, "h_i") /\ Has(before, "a_in")
        THEN /\ result.out.kind = "return"
             /\ IsHeightOverTan(result.out.value, before["h_i"], before["a_in"])
        ELSE IF Has(before, "h_o") /\ Has(before, "a_out")
        THEN /\ result.out.kind = "return"
             /\ IsHeightOverTan(result.out.value, before["h_o"], before["a_out"])
        ELSE Failed("ValueError")

\* d_o wins while both height alternatives are present and give other values
C1_Witness ==
    /\ Returned("ThinLens.get_focal_length")
    /\ ~Has(before, "d_i")
    /\ Has(before, "d_o")
    /\ Has(before, "h_i") /\ Has(before, "a_in")
    /\ Has(before, "h_o") /\ Has(before, "a_out")
    /\ result.out.value = I(80)
    /\ HeightOverTan(before["h_i"], before["a_in"])[1] # I(80)
    /\ HeightOverTan(before["h_o"], before["a_out"])[1] # I(80)

\* C2: with apex angle 0 and fringe frequency 0, and no total internal
\* reflection, every entry of get_angle_out equals the incidence angle of its
\* row, sign included.
C2_PassThrough ==
    ( /\ Returned("VPHGrism.get_angle_out")
      /\ before["a"] = I(0)
      /\ before["v"] = I(0) ) =>
        \A i \in 1..Len(before["a_in"]) : \A j \in 1..Len(before["l"]) :
            ~IsNaN(result.out.value[i][j]) =>
                Near(result.out.value[i][j], before["a_in"][i], Tol)

\* the instance with the single incidence angle i and the single wavelength j
OnePair(obj, i, j) ==
    [obj EXCEPT !["a_in"] = <<obj["a_in"][i]>>, !["l"] = <<obj["l"][j]>>]

\* C3: with k incidence angles and m wavelengths get_angle_out returns k rows
\* of m columns, entry (i, j) being what the i-th angle and the j-th
\* wavelength give on their own.
C3_GridShape ==
    Returned("VPHGrism.get_angle_out") =>
        /\ Len(result.out.value) = Len(before["a_in"])
        /\ \A i \in 1..Len(before["a_in"]) :
              /\ Len(result.out.value[i]) = Len(before["l"])
              /\ \A j \in 1..Len(before["l"]) :
                    <<result.out.value[i][j]>> = AngleOutChain(OnePair(before, i, j))[1]

\* two angles and two wavelengths, a prism and a grating, four distinct entries
C3_Witness ==
    /\ Returned("VPHGrism.get_angle_out")
    /\ Len(before["a_in"]) = 2
    /\ Len(before["l"]) = 2
    /\ before["a"] # I(0)
    /\ before["v"] # I(0)
    /\ Cardinality({result.out.value[i][j] : i \in 1..2, j \in 1..2}) = 4
    /\ \A i \in 1..2 : \A j \in 1..2 : ~IsNaN(result.out.value[i][j])

Present(obj) == {f \in DOMAIN obj : Has(obj, f)}

\* C4 as stated: get_angle_out needs nine parameters, so a call that returns
\* a value has found at least nine fields set.
C4_NineRequired ==
    Returned("VPHGrism.get_angle_out") => Cardinality(Present(before)) >= 9

\* C4 amended: get_angle_out needs the eight parameters a_in, n_1, n_2, n_3,
\* m, a, v, l; with exactly one of them absent the call fails naming it, and
\* it returns a value only when all eight are present.
C4_EightRequired ==
    Called("VPHGrism.get_angle_out") =>
        /\ \A f \in Range(AngleOutRequired) :
              (Range(AngleOutRequired) \ Present(before) = {f}) => FailedNaming(f)
        /\ result.out.kind = "return" <=> Range(AngleOutRequired) \subseteq Present(before)
        /\ Cardinality(Range(AngleOutRequired)) = 8

\* only n_2 is absent and the failure names n_2
C4_Witness ==
    /\ Called("VPHGrism.get_angle_out")
    /\ Range(AngleOutRequired) \ Present(before) = {"n_2"}
    /\ FailedNaming("n_2")

\* C5: Foreoptics.get_numerical_aperture returns sin(a_in_max) when a_in_max
\* is present, 1/(2 n) when a_in_max is absent and n present, and raises the
\* ValueError naming a_in_max and n when both are absent; it fails in no
\* other way.
C5_NumericalAperture ==
    Called("Foreoptics.get_numerical_aperture") =>
        IF Has(before, "a_in_max")
        THEN result.out.kind = "return"
             /\ result.out.value = Sin(Radians(before["a_in_max"]))
        ELSE IF Has(before, "n")
        THEN result.out.kind = "return"
             /\ result.out.value = RDiv(I(1), RMul(I(2), before["n"]))
        ELSE Failed("ValueError") /\ {"a_in_max", "n"} \subseteq Range(result.out.msg)

\* C6: AchromDoublet.effective_focal_length returns f_1 V_1 / (V_1 - V_2)
\* when f_1 is present (f_2 present or not), -f_2 V_2 / (V_1 - V_2) when f_1
\* is absent and f_2 present, and raises the ValueError naming f_1 and f_2
\* when both are absent.
C6_EffectiveFocalLength ==
    ( /\ Called("AchromDoublet.effective_focal_length")
      /\ Has(before, "V_1")
      /\ Has(before, "V_2") ) =>
        IF Has(before, "f_1")
        THEN result.out.kind = "return"
             /\ result.out.value = RDiv(RMul(before["f_1"], before["V_1"]),
                                        RSub(before["V_1"], before["V_2"]))
        ELSE IF Has(before, "f_2")
        THEN result.out.kind = "return"
             /\ result.out.value = RDiv(RMul(RNeg(before["f_2"]), before["V_2"]),
                                        RSub(before["V_1"], before["V_2"]))
        ELSE Failed("ValueError") /\ {"f_1", "f_2"} \subseteq Range(result.out.msg)

\* na = dm_a / (2 ds_i)
Consistent(obj) == obj["na"] = RDiv(obj["dm_a"], RMul(I(2), obj["ds_i"]))

\* C7: Foreoptics.get_f_number returns 1/(2 na) when na is present whatever
\* ds_i and dm_a are, ds_i/dm_a when na is absent and ds_i and dm_a present,
\* and raises ValueError otherwise; with na = dm_a/(2 ds_i) the two paths
\* give the same value.
C7_FNumber ==
    Called("Foreoptics.get_f_number") =>
        IF Has(before, "na")
        THEN /\ result.out.kind = "return"
             /\ result.out.value = RDiv(I(1), RMul(I(2), before["na"]))
             /\ (Has(before, "ds_i") /\ Has(before, "dm_a") /\ Consistent(before))
                    => result.out.value = RDiv(before["ds_i"], before["dm_a"])
        ELSE IF Has(before, "ds_i") /\ Has(before, "dm_a")
        THEN result.out.kind = "return"
             /\ result.out.value = RDiv(before["ds_i"], before["dm_a"])
        ELSE Failed("ValueError")

\* na = 0.1 with ds_i = 50 and dm_a = 10: the call returns 5
C7_Witness ==
    /\ Returned("Foreoptics.get_f_number")
    /\ before["na"] = Q(1, 10)
    /\ before["ds_i"] = I(50)
    /\ before["dm_a"] = I(10)
    /\ result.out.value = I(5)

\* C8: ThickLens.get_focal_length with one of n, R1, R2, d absent fails
\* naming the first absent one in the order n, R1, R2, d and returns no
\* value; with only n set it names R1.
C8_ThickLensMissing ==
    Called("ThickLens.get_focal_length") =>
        /\ \A f \in {"n", "R1", "R2", "d"} : ~Has(before, f) => result.out.kind = "raise"
        /\ ~Has(before, "n") => FailedNaming("n")
        /\ (Has(before, "n") /\ ~Has(before, "R1")) => FailedNaming("R1")
        /\ (Has(before, "n") /\ Has(before, "R1") /\ ~Has(before, "R2")) => FailedNaming("R2")
        /\ (Has(before, "n") /\ Has(before, "R1") /\ Has(before, "R2") /\ ~Has(before, "d"))
               => FailedNaming("d")

\* only n is set and the failure names R1
C8_Witness ==
    /\ Called("ThickLens.get_focal_length")
    /\ Present(before) = {"n"}
    /\ FailedNaming("R1")

\* the alternative input sets of a method, in the order its conditions test them
Alternatives(name) ==
    CASE name = "Foreoptics.get_aperture_diameter" -> <<{"n"}, {"na"}>>
      [] name = "Foreoptics.get_f_number" -> <<{"na"}, {"ds_i", "dm_a"}>>
      [] name = "Foreoptics.get_numerical_aperture" -> <<{"a_in_max"}, {"n"}>>
      [] name = "VPHGrism.get_resolvance" -> <<{"l", "dl"}, {"m", "N"}>>
      [] name = "VPHGrism.get_resolution" -> <<{"l", "R"}, {"l", "m", "N"}>>
      [] name = "ThinLens.get_focal_length" ->
            <<{"d_i"}, {"d_o"}, {"h_i", "a_in"}, {"h_o", "a_out"}>>
      [] name = "AchromDoublet.effective_focal_length" -> <<{"f_1"}, {"f_2"}>>

MultiAlternative == {
    "Foreoptics.get_aperture_diameter", "Foreoptics.get_f_number",
    "Foreoptics.get_numerical_aperture", "VPHGrism.get_resolvance",
    "VPHGrism.get_resolution", "ThinLens.get_focal_length",
    "AchromDoublet.effective_focal_length"}

\* fields a multi-alternative method asserts before it tries its alternatives
Asserted(name) == IF name = "Foreoptics.get_aperture_diameter" THEN {"ds_i"} ELSE {}

\* the input sets a message names: groups of field names joined by "and",
\* separated by "or", up to "must"
RECURSIVE Groups(_, _, _)
Groups(ws, cur, acc) ==
    IF ws = <<>> \/ Head(ws) = "must" THEN Append(acc, cur)
    ELSE IF Head(ws) = "or" THEN Groups(Tail(ws), {}, Append(acc, cur))
    ELSE IF Head(ws) = "and" THEN Groups(Tail(ws), cur, acc)
    ELSE Groups(Tail(ws), cur \cup {Head(ws)}, acc)

MessageAlternatives(msg) == Groups(msg, {}, <<>>)

NoAlternative(name, obj) ==
    \A k \in 1..Len(Alternatives(name)) : ~(Alternatives(name)[k] \subseteq Present(obj))

\* C9: when a multi-alternative derivation finds none of its input sets fully
\* present, it raises a ValueError whose message names every input set in the
\* order the method tries them.
C9_MessageOrder ==
    \A name \in MultiAlternative :
        ( /\ Called(name)
          /\ Asserted(name) \subseteq Present(before)
          /\ NoAlternative(name, before) ) =>
            /\ Failed("ValueError")
            /\ MessageAlternatives(result.out.msg) = Alternatives(name)

\* C10: a derivation call, returning or failing, changes no field: the fields
\* of the instance are always exactly those set by construction and by
\* explicit assignment.
C10_FieldsUnchanged == self = assigned

\* get_focal_length has returned a value and f_thick is still absent
C10_Witness ==
    /\ Returned("ThickLens.get_focal_length")
    /\ ~IsNaN(result.out.value)
    /\ ~Has(self, "f_thick")

\* C11: the outcome of a derivation call depends only on the method and on
\* the fields as construction and the assignments left them: whatever calls
\* came before, it is what the method gives on those fields; the same method
\* called again with no assignment in between gives the same outcome; and a
\* call after a reassignment (to a value or to absent) gives the outcome for
\* the new fields, never an outcome computed earlier.
C11_NoOrderDependency ==
    [][result'.method # "" =>
          /\ result'.out = Invoke(result'.method, assigned').out
          /\ history'.again => result'.out = result.out]_vars

\* get_resolvance returned a value, dl or l was then reassigned to absent, and
\* the method was called twice more: both calls fail for the new fields
C11_Witness ==
    /\ Called("VPHGrism.get_resolvance")
    /\ history.prev.method = "VPHGrism.get_resolvance"
    /\ history.prev.out.kind = "return"
    /\ history.again
    /\ Failed("ValueError")
    /\ ~(Has(assigned, "l") /\ Has(assigned, "dl"))

\* Snell's law for one ray: the angle in the medium of index n_b of a ray
\* that meets the interface at angle x in the medium of index n_a
Refracted(x, n_a, n_b) == ArcSin(RDiv(RMul(n_a, Sin(x)), n_b))

\* the exit angle, in degrees, of the ray of incidence angle i and wavelength
\* j, taken step by step: (a) a_in + a, (b) Snell n_1 -> n_2, (c) a minus the
\* angle, (d) Snell n_2 -> n_3, (e) the grating equation with the wavelength
\* in metres, (f) Snell n_3 -> n_2, (g) the angle minus a, (h) Snell
\* n_2 -> n_1, (i) the angle plus a; angles in radians throughout
StepByStep(obj, i, j) ==
    LET a      == Radians(obj["a"])
        metres == RMul(obj["l"][j], Q(1, 10^9))
        step_a == RAdd(Radians(obj["a_in"][i]), a)
        step_b == Refracted(step_a, obj["n_1"], obj["n_2"])
        step_c == RSub(a, step_b)
        step_d == Refracted(step_c, obj["n_2"], obj["n_3"])
        step_e == ArcSin(RSub(Sin(step_d),
                              RMul(obj["m"], RMul(obj["v"], metres))))
        step_f == Refracted(step_e, obj["n_3"], obj["n_2"])
        step_g == RSub(step_f, a)
        step_h == Refracted(step_g, obj["n_2"], obj["n_1"])
        step_i == RAdd(step_h, a)
    IN  Degrees(step_i)

====
